---- MODULE Spec2Model ----
(***************************************************************************)
(* Model of the screener's run (runScreener, getOrderSummary, printTable)  *)
(* in its two program variants:                                            *)
(*   "YesNo"  -- src/main.go            (yes / no prices, coloured cells)  *)
(*   "BidAsk" -- src/unnamed/part_000   (best bid / best ask / spread)     *)
(*                                                                         *)
(* Representation.  A decimal.Decimal is an integer number of thousandths; *)
(* a *decimal.Decimal is a record [nil, v]; a float64 change is a record   *)
(* [nan, v] with v in hundredths of a percent.  Go slices are sequences,   *)
(* so the Go index k is the sequence position k + 1.                       *)
(***************************************************************************)
EXTENDS Integers, Sequences, FiniteSets, TLC

(* ------------------------------ bounds -------------------------------- *)
MaxSymbols == 2      \* configured instruments: 0 .. MaxSymbols
MaxTokens == 2       \* outcome-token identifiers one resolved market may carry
MaxEvents == 3       \* events the streaming collaborator delivers in one session
MaxLevels == 1       \* price levels on one side of a streamed book event
MaxSummary == 3      \* price levels handed to getOrderSummary on its own
MaxDerive == 2       \* price levels on one side of an event derived on its own

(* ------------------------------ values -------------------------------- *)
NilPtr == [nil |-> TRUE, v |-> 0]
Ptr(d) == [nil |-> FALSE, v |-> d]
Float(x) == [nan |-> FALSE, v |-> x]
NaN == [nan |-> TRUE, v |-> 0]

Modes == {"YesNo", "BidAsk"}

\* gamma.BookEvent and one other event kind of the stream
BookEvent == "book"
EventTypes == {BookEvent, "price_change"}

\* the instruments a configuration file may list, in file order
SymbolPool ==
  << [Symbol |-> "AAPL", Yahoo |-> ""],
     [Symbol |-> "SPX", Yahoo |-> "^GSPC"],
     [Symbol |-> "NVDA", Yahoo |-> ""],
     [Symbol |-> "NDX", Yahoo |-> "^NDX"] >>

\* price strings of streamed levels; the last one is no decimal
StreamPrices == {"0.30", "abc"}
\* price strings handed to getOrderSummary on its own
SummaryPrices == {"0.30", "0.555", "0.9", "abc"}

\* price strings of an event whose metrics are derived on its own
DerivePrices == {"0.30", "0.55", "0.555", "abc"}

\* what yahoo.GetChange may return: an error, or a change in 1/100 percent
ChangeValues == {-150, 220}

\* all sequences over S of length 0 .. n
RECURSIVE SeqsUpTo(_, _)
SeqsUpTo(S, n) ==
  IF n = 0 THEN {<<>>}
  ELSE LET shorter == SeqsUpTo(S, n - 1)
       IN shorter \cup {Append(s, x) : s \in {t \in shorter : Len(t) = n - 1}, x \in S}

Levels(P, n) == SeqsUpTo({[Price |-> p] : p \in P}, n)

(* ------------------------------ state --------------------------------- *)
VARIABLES
  mode,           \* which program variant runs
  configuration,  \* configuration.Symbols
  phase,          \* "Resolving", "Streaming", "Returned", "Done", "Fatal", "Panic",
                  \* or "Summary" / "SummaryDone" for getOrderSummary on its own,
                  \* "Derive" / "Derived", "Table" / "TableDone", "Concurrent"
  markets,        \* markets appended so far by the resolution loop
  assetIDs,       \* gamma.GetAssetIDs(markets)
  symbols,        \* the result table
  symbolCount,    \* the filled count
  message,        \* the event last handed to the callback
  index,          \* slices.Index(assetIDs, message.AssetID) of that event
  result,         \* what the callback returned for it: "none", "true", "false"
  delivered,      \* events handed to the callback so far
  closed,         \* the upstream stream ended on its own
  subscribed,     \* SubscribeToMarkets has been called
  gotMarket,      \* history: what the last gamma.GetMarket call returned
  gotChange,      \* history: what the last yahoo.GetChange call returned
  writes,         \* history: how often each slot of the table was written
  source,         \* history: the event last written to each slot
  rendered,       \* how many times printTable ran
  rows,           \* the rows printTable handed to the table writer
  summary,        \* input of getOrderSummary on its own
  best,           \* its outcome
  work,           \* history: book events accepted and yahoo.GetChange calls made
  calls           \* callback invocations in flight when events are delivered
                  \* concurrently

vars == << mode, configuration, phase, markets, assetIDs, symbols, symbolCount,
           message, index, result, delivered, closed, subscribed, gotMarket,
           gotChange, writes, source, rendered, rows, summary, best, work,
           calls >>


(* --------------------------- configuration ---------------------------- *)
configurationPath == "configuration/configuration.yaml"
mediocrePriceString == "0.75"
goodPriceString == "0.50"
goodSpreadString == "0.5"
enableSpreadColors == FALSE
enableYahoo == TRUE

NumSymbols == Len(configuration.Symbols)

(* ----------------------- external collaborators ----------------------- *)
\* decimal.NewFromString on the strings that occur: the value in thousandths,
\* or an error for a string that is no decimal
NewFromString(value) ==
  CASE value = "0.30" -> [err |-> FALSE, d |-> 300]
    [] value = "0.5" -> [err |-> FALSE, d |-> 500]
    [] value = "0.50" -> [err |-> FALSE, d |-> 500]
    [] value = "0.55" -> [err |-> FALSE, d |-> 550]
    [] value = "0.555" -> [err |-> FALSE, d |-> 555]
    [] value = "0.75" -> [err |-> FALSE, d |-> 750]
    [] value = "0.9" -> [err |-> FALSE, d |-> 900]
    [] OTHER -> [err |-> TRUE, d |-> 0]

\* strings.ToLower on the configured symbols
ToLower(s) ==
  CASE s = "AAPL" -> "aapl"
    [] s = "SPX" -> "spx"
    [] s = "NVDA" -> "nvda"
    [] s = "NDX" -> "ndx"
    [] OTHER -> s

\* the k-th outcome-token identifier of the market of the i-th instrument
TokenID(i, k) == (i - 1) * MaxTokens + k
\* an identifier no resolved market carries
UnknownID == 0

\* gamma.GetMarket(slug) for the i-th instrument: an error, a market record
\* without a slug (nothing found, no error), or the market with 1 .. MaxTokens
\* outcome tokens
GetMarketOutcomes(i, slug) ==
  {[err |-> TRUE, market |-> [Slug |-> "", Tokens |-> <<>>]],
   [err |-> FALSE, market |-> [Slug |-> "", Tokens |-> <<>>]]}
  \cup
  {[err |-> FALSE,
    market |-> [Slug |-> slug, Tokens |-> [k \in 1..t |-> TokenID(i, k)]]] :
      t \in 1..MaxTokens}

\* gamma.GetAssetIDs(markets): the markets' token identifiers, in market order
RECURSIVE GetAssetIDs(_)
GetAssetIDs(ms) ==
  IF ms = <<>> THEN <<>> ELSE Head(ms).Tokens \o GetAssetIDs(Tail(ms))

\* yahoo.GetChange(symbol): an error or a value
GetChangeOutcomes ==
  {[err |-> TRUE, value |-> Float(0)]}
  \cup {[err |-> FALSE, value |-> Float(x)] : x \in ChangeValues}

\* slices.Index with 0 in place of -1 for an absent element
SlicesIndexZero(s, x) ==
  IF \E k \in 1..Len(s) : s[k] = x
  THEN (CHOOSE k \in 1..Len(s) : s[k] = x /\ \A j \in 1..(k - 1) : s[j] # x) - 1
  ELSE 0

\* slices.Index(s, x): the Go index of the first occurrence of x, or -1
SlicesIndex(s, x) ==
  IF \E k \in 1..Len(s) : s[k] = x
  THEN (CHOOSE k \in 1..Len(s) : s[k] = x /\ \A j \in 1..(k - 1) : s[j] # x) - 1
  ELSE -1

\* the events the stream may carry
AssetIDs == {UnknownID} \cup 1..(MaxSymbols * MaxTokens)

\* the events the stream may carry: book snapshots with their two sides, and
\* events of another kind, which carry no levels
Messages ==
  {[EventType |-> BookEvent, AssetID |-> a, Bids |-> b, Asks |-> k] :
     a \in AssetIDs,
     b \in Levels(StreamPrices, MaxLevels),
     k \in Levels(StreamPrices, MaxLevels)}
  \cup
  {[EventType |-> e, AssetID |-> a, Bids |-> <<>>, Asks |-> <<>>] :
     e \in EventTypes \ {BookEvent}, a \in AssetIDs}

NoMessage == [EventType |-> "", AssetID |-> UnknownID, Bids |-> <<>>, Asks |-> <<>>]

(* -------------------------- getOrderSummary --------------------------- *)
\* getOrderSummary reading the first level instead of the last
getOrderSummaryFirst(levels) ==
  IF Len(levels) > 0
  THEN LET price == NewFromString(levels[1].Price)
       IN IF price.err
          THEN [fatal |-> TRUE, ptr |-> NilPtr]
          ELSE [fatal |-> FALSE, ptr |-> Ptr(price.d)]
  ELSE [fatal |-> FALSE, ptr |-> NilPtr]

\* [fatal, ptr]: log.Fatalf was reached, or the returned *decimal.Decimal
getOrderSummary(levels) ==
  IF Len(levels) > 0
  THEN LET priceString == levels[Len(levels)].Price
           price == NewFromString(priceString)
       IN IF price.err
          THEN [fatal |-> TRUE, ptr |-> NilPtr]
          ELSE [fatal |-> FALSE, ptr |-> Ptr(price.d)]
  ELSE [fatal |-> FALSE, ptr |-> NilPtr]

mustParseDecimal(value) == NewFromString(value).d


(* ------------------------------ callback ------------------------------ *)
\* the zero value of symbolData, as make([]symbolData, n) fills the table
ZeroSymbolData ==
  IF mode = "YesNo"
  THEN [symbol |-> "", yahoo |-> "", yes |-> NilPtr, no |-> NilPtr,
        spread |-> NilPtr, change |-> Float(0)]
  ELSE [symbol |-> "", yahoo |-> "", bestBid |-> NilPtr, bestAsk |-> NilPtr,
        spread |-> NilPtr, change |-> Float(0)]

\* a yes/no derivation that stores the best bid as the no price
DeriveYesNoRaw(symbol, m, c) ==
  LET yes == getOrderSummary(m.Asks)
      no0 == getOrderSummary(m.Bids)
  IN [fatal |-> yes.fatal \/ no0.fatal \/ c.err,
      data |-> [symbol |-> symbol.Symbol, yahoo |-> symbol.Yahoo,
                yes |-> yes.ptr, no |-> no0.ptr, spread |-> NilPtr,
                change |-> c.value]]

\* main.go 86-112: the row of an accepted event, or fatal
DeriveYesNo(symbol, m, c) ==
  LET yes == getOrderSummary(m.Asks)
      no0 == getOrderSummary(m.Bids)
      no == IF no0.ptr.nil THEN NilPtr ELSE Ptr(1000 - no0.ptr.v)
      lookup == IF enableYahoo THEN c ELSE [err |-> FALSE, value |-> NaN]
  IN [fatal |-> yes.fatal \/ no0.fatal \/ lookup.err,
      data |-> [symbol |-> symbol.Symbol, yahoo |-> symbol.Yahoo,
                yes |-> yes.ptr, no |-> no, spread |-> NilPtr,
                change |-> lookup.value]]

\* a bid/ask derivation that subtracts the wrong way round
DeriveBidAskSwapped(symbol, m, c) ==
  LET bestBid == getOrderSummary(m.Bids)
      bestAsk == getOrderSummary(m.Asks)
      spread == IF ~bestBid.ptr.nil /\ ~bestAsk.ptr.nil
                THEN Ptr(bestBid.ptr.v - bestAsk.ptr.v)
                ELSE NilPtr
  IN [fatal |-> bestBid.fatal \/ bestAsk.fatal \/ c.err,
      data |-> [symbol |-> symbol.Symbol, yahoo |-> symbol.Yahoo,
                bestBid |-> bestBid.ptr, bestAsk |-> bestAsk.ptr,
                spread |-> spread, change |-> c.value]]

\* part_000 73-96: the row of an accepted event, or fatal
DeriveBidAsk(symbol, m, c) ==
  LET bestBid == getOrderSummary(m.Bids)
      bestAsk == getOrderSummary(m.Asks)
      spread == IF ~bestBid.ptr.nil /\ ~bestAsk.ptr.nil
                THEN Ptr(bestAsk.ptr.v - bestBid.ptr.v)
                ELSE NilPtr
  IN [fatal |-> bestBid.fatal \/ bestAsk.fatal \/ c.err,
      data |-> [symbol |-> symbol.Symbol, yahoo |-> symbol.Yahoo,
                bestBid |-> bestBid.ptr, bestAsk |-> bestAsk.ptr,
                spread |-> spread, change |-> c.value]]

Derive(symbol, m, c) ==
  IF mode = "YesNo" THEN DeriveYesNo(symbol, m, c) ELSE DeriveBidAsk(symbol, m, c)

\* a gate that never stops the stream
ShouldContinueAlways(count, total) == TRUE

\* a gate that stops one event late
ShouldContinueLate(count, total) == count <= total

\* the value the callback returns after a book event
ShouldContinue(count, total) == count < total

\* a write that resets every other slot
WriteSlotClear(table, idx, data) ==
  [k \in 1..Len(table) |-> IF k = idx + 1 THEN data ELSE ZeroSymbolData]

\* a write that ignores the index
WriteSlotFirst(table, idx, data) == [table EXCEPT ![1] = data]

\* the table after symbols[index] = data
WriteSlot(table, idx, data) == [table EXCEPT ![idx + 1] = data]

\* a callback that takes every event for a book event
IsBookEventAlways(m) == TRUE

\* the callback's test of the event kind
IsBookEvent(m) == m.EventType = BookEvent

\* the callback on event m, with c what yahoo.GetChange would answer:
\* the next phase, table, count, computed index, returned value, written slot
Callback(m, c) ==
  IF IsBookEvent(m)
  THEN LET idx == SlicesIndex(assetIDs, m.AssetID) IN
       IF idx >= 0
       THEN IF idx >= NumSymbols
            THEN \* configuration.Symbols[index]: index out of range
                 [phase |-> "Panic", symbols |-> symbols, symbolCount |-> symbolCount,
                  index |-> idx, result |-> "none", wrote |-> -1]
            ELSE LET r == Derive(configuration.Symbols[idx + 1], m, c) IN
                 IF r.fatal
                 THEN [phase |-> "Fatal", symbols |-> symbols,
                       symbolCount |-> symbolCount,
                       index |-> idx, result |-> "none", wrote |-> -1]
                 ELSE LET count == symbolCount + 1
                          continue == ShouldContinue(count, NumSymbols)
                      IN [phase |-> IF continue THEN "Streaming" ELSE "Returned",
                          symbols |-> WriteSlot(symbols, idx, r.data),
                          symbolCount |-> count,
                          index |-> idx,
                          result |-> IF continue THEN "true" ELSE "false",
                          wrote |-> idx]
       ELSE LET continue == ShouldContinue(symbolCount, NumSymbols)
            IN [phase |-> IF continue THEN "Streaming" ELSE "Returned",
                symbols |-> symbols, symbolCount |-> symbolCount,
                index |-> idx,
                result |-> IF continue THEN "true" ELSE "false",
                wrote |-> -1]
  ELSE [phase |-> "Returned", symbols |-> symbols, symbolCount |-> symbolCount,
        index |-> -1, result |-> "false", wrote |-> -1]


(* ------------------------------ printTable ---------------------------- *)
\* d.StringFixed(2): the decimal rounded half away from zero to 1/100
StringFixed2(d) == IF d >= 0 THEN (d + 5) \div 10 ELSE -((5 - d) \div 10)

\* a printed cell: the placeholder "-" or "N/A", a number with two decimals
\* (num in 1/100), or a signed percentage (num in 1/100 percent); color is
\* the colour function applied to the string
Cell(kind, num, color) == [kind |-> kind, num |-> num, color |-> color]
Plain(sym) == [kind |-> "symbol", num |-> 0, color |-> "none", text |-> sym]

getDecimalString(d, placeholder) ==
  IF ~d.nil THEN Cell("fixed2", StringFixed2(d.v), "none")
  ELSE Cell(placeholder, 0, "none")

Paint(cell, color) == [cell EXCEPT !.color = color]

\* a row whose bound tests are strict
RowYesNoStrict(data) ==
  LET goodPrice == mustParseDecimal(goodPriceString)
      mediocrePrice == mustParseDecimal(mediocrePriceString)
      yes0 == getDecimalString(data.yes, "-")
      yesString ==
        IF ~data.change.nan /\ data.change.v > 0 /\ ~data.yes.nil /\ data.yes.v > 0
        THEN IF data.yes.v < goodPrice THEN Paint(yes0, "green")
             ELSE IF data.yes.v < mediocrePrice THEN Paint(yes0, "yellow")
             ELSE yes0
        ELSE yes0
      no0 == getDecimalString(data.no, "-")
      noString ==
        IF ~data.change.nan /\ data.change.v < 0 /\ ~data.no.nil /\ data.no.v > 0
        THEN IF data.no.v < goodPrice THEN Paint(no0, "green")
             ELSE IF data.no.v < mediocrePrice THEN Paint(no0, "yellow")
             ELSE no0
        ELSE no0
  IN << Plain(data.symbol), yesString, noString,
        Cell("-", 0, "none"), Cell("-", 0, "none") >>

\* a row whose no cell tests the change like the yes cell does
RowYesNoSameSign(data) ==
  LET goodPrice == mustParseDecimal(goodPriceString)
      mediocrePrice == mustParseDecimal(mediocrePriceString)
      yes0 == getDecimalString(data.yes, "-")
      yesString ==
        IF ~data.change.nan /\ data.change.v > 0 /\ ~data.yes.nil /\ data.yes.v > 0
        THEN IF data.yes.v <= goodPrice THEN Paint(yes0, "green")
             ELSE IF data.yes.v <= mediocrePrice THEN Paint(yes0, "yellow")
             ELSE yes0
        ELSE yes0
      no0 == getDecimalString(data.no, "-")
      noString ==
        IF ~data.change.nan /\ data.change.v > 0 /\ ~data.no.nil /\ data.no.v > 0
        THEN IF data.no.v <= goodPrice THEN Paint(no0, "green")
             ELSE IF data.no.v <= mediocrePrice THEN Paint(no0, "yellow")
             ELSE no0
        ELSE no0
  IN << Plain(data.symbol), yesString, noString,
        Cell("-", 0, "none"), Cell("-", 0, "none") >>

\* main.go 159-214: the row of one table slot
RowYesNo(data) ==
  LET goodPrice == mustParseDecimal(goodPriceString)
      mediocrePrice == mustParseDecimal(mediocrePriceString)
      goodSpread == mustParseDecimal(goodSpreadString)
      yes0 == getDecimalString(data.yes, "-")
      yesString ==
        IF ~data.change.nan /\ data.change.v > 0 /\ ~data.yes.nil /\ data.yes.v > 0
        THEN IF data.yes.v <= goodPrice THEN Paint(yes0, "green")
             ELSE IF data.yes.v <= mediocrePrice THEN Paint(yes0, "yellow")
             ELSE yes0
        ELSE yes0
      no0 == getDecimalString(data.no, "-")
      noString ==
        IF ~data.change.nan /\ data.change.v < 0 /\ ~data.no.nil /\ data.no.v > 0
        THEN IF data.no.v <= goodPrice THEN Paint(no0, "green")
             ELSE IF data.no.v <= mediocrePrice THEN Paint(no0, "yellow")
             ELSE no0
        ELSE no0
      spreadString ==
        IF ~data.yes.nil /\ ~data.no.nil
        THEN LET spread == data.yes.v + data.no.v - 1000
                 s0 == getDecimalString(Ptr(spread), "-")
             IN IF spread >= goodSpread THEN Paint(s0, "yellow") ELSE s0
        ELSE Cell("-", 0, "none")
      changeString ==
        IF ~data.change.nan
        THEN IF data.change.v >= 0
             THEN Cell("pct", data.change.v, "green")
             ELSE Cell("pct", data.change.v, "red")
        ELSE Cell("-", 0, "none")
  IN << Plain(data.symbol), yesString, noString, spreadString, changeString >>

\* part_000 132-147: the row of one table slot
RowBidAsk(data) ==
  << Plain(data.symbol),
     getDecimalString(data.bestBid, "N/A"),
     getDecimalString(data.bestAsk, "N/A"),
     getDecimalString(data.spread, "N/A"),
     IF data.change.nan THEN Cell("pctNaN", 0, "none")
     ELSE Cell("pct", data.change.v, "none") >>

printTable(table) ==
  [i \in 1..Len(table) |->
     IF mode = "YesNo" THEN RowYesNo(table[i]) ELSE RowBidAsk(table[i])]

(* ------------------------------- actions ------------------------------ *)
\* a resolution loop that accepts whatever gamma.GetMarket returns
MarketFailureNever(r) == FALSE

\* a market the resolution loop does not accept
MarketFailure(r) ==
  IF mode = "YesNo" THEN r.err \/ r.market.Slug = "" ELSE r.err

\* one iteration of the resolution loop
GetMarket ==
  /\ phase = "Resolving"
  /\ Len(markets) < NumSymbols
  /\ LET i == Len(markets) + 1
         symbol == configuration.Symbols[i]
         slug == ToLower(symbol.Symbol)
     IN \E r \in GetMarketOutcomes(i, slug) :
          /\ gotMarket' = r
          /\ IF MarketFailure(r)
             THEN phase' = "Fatal" /\ markets' = markets
             ELSE phase' = phase /\ markets' = Append(markets, r.market)
  /\ UNCHANGED << mode, configuration, assetIDs, symbols, symbolCount, message,
                  index, result, delivered, closed, subscribed, gotChange, writes,
                  source, rendered, rows, summary, best, work, calls >>

\* the loop is over: the identifier list, the empty table, the subscription
SubscribeToMarkets ==
  /\ phase = "Resolving"
  /\ Len(markets) = NumSymbols
  /\ assetIDs' = GetAssetIDs(markets)
  /\ symbols' = [i \in 1..NumSymbols |-> ZeroSymbolData]
  /\ symbolCount' = 0
  /\ phase' = "Streaming"
  /\ subscribed' = TRUE
  /\ UNCHANGED << mode, configuration, markets, message, index, result,
                  delivered, closed, gotMarket, gotChange, writes, source,
                  rendered, rows, summary, best, work, calls >>

\* the callback accepts event m: a book event whose identifier is subscribed
Accepts(m) == IsBookEvent(m) /\ SlicesIndex(assetIDs, m.AssetID) >= 0

\* the callback reaches yahoo.GetChange on event m
CallsGetChange(m) ==
  /\ IsBookEvent(m)
  /\ SlicesIndex(assetIDs, m.AssetID) >= 0
  /\ SlicesIndex(assetIDs, m.AssetID) < NumSymbols
  /\ ~getOrderSummary(m.Asks).fatal
  /\ ~getOrderSummary(m.Bids).fatal
  /\ (mode = "YesNo" => enableYahoo)

NoChange == [err |-> FALSE, value |-> NaN]

\* the streaming collaborator hands one event to the callback; a returned
\* false ends SubscribeToMarkets
OnMessage ==
  /\ phase = "Streaming"
  /\ delivered < MaxEvents
  /\ \E m \in Messages :
     \E c \in (IF CallsGetChange(m) THEN GetChangeOutcomes ELSE {NoChange}) :
       LET r == Callback(m, c) IN
       /\ message' = m
       /\ phase' = r.phase
       /\ symbols' = r.symbols
       /\ symbolCount' = r.symbolCount
       /\ index' = r.index
       /\ result' = r.result
       /\ gotChange' = IF CallsGetChange(m) THEN c ELSE gotChange
       /\ work' = [accepted |-> work.accepted + (IF Accepts(m) THEN 1 ELSE 0),
                   lookups |-> work.lookups + (IF CallsGetChange(m) THEN 1 ELSE 0)]
       /\ writes' = IF r.wrote >= 0
                    THEN [writes EXCEPT ![r.wrote] = @ + 1]
                    ELSE writes
       /\ source' = IF r.wrote >= 0
                    THEN [source EXCEPT ![r.wrote] = m]
                    ELSE source
  /\ delivered' = delivered + 1
  /\ UNCHANGED << mode, configuration, markets, assetIDs, closed, subscribed,
                  gotMarket, rendered, rows, summary, best, calls >>

\* the upstream stream ends on its own: SubscribeToMarkets returns
StreamClosed ==
  /\ phase = "Streaming"
  /\ phase' = "Returned"
  /\ closed' = TRUE
  /\ UNCHANGED << mode, configuration, markets, assetIDs, symbols, symbolCount,
                  message, index, result, delivered, subscribed, gotMarket,
                  gotChange, writes, source, rendered, rows, summary, best, work, calls >>

\* runScreener's last statement
PrintTable ==
  /\ phase = "Returned"
  /\ rows' = printTable(symbols)
  /\ rendered' = rendered + 1
  /\ phase' = "Done"
  /\ UNCHANGED << mode, configuration, markets, assetIDs, symbols, symbolCount,
                  message, index, result, delivered, closed, subscribed, gotMarket,
                  gotChange, writes, source, summary, best, work, calls >>

NoMarket == [err |-> FALSE, market |-> [Slug |-> "none", Tokens |-> <<>>]]

\* everything but mode, configuration, phase and summary before the run starts
Idle ==
  /\ markets = <<>>
  /\ assetIDs = <<>>
  /\ symbols = <<>>
  /\ symbolCount = 0
  /\ message = NoMessage
  /\ index = -1
  /\ result = "none"
  /\ delivered = 0
  /\ closed = FALSE
  /\ subscribed = FALSE
  /\ gotMarket = NoMarket
  /\ gotChange = NoChange
  /\ writes = [i \in 0..(MaxSymbols - 1) |-> 0]
  /\ source = [i \in 0..(MaxSymbols - 1) |-> NoMessage]
  /\ rendered = 0
  /\ rows = <<>>
  /\ best = [fatal |-> FALSE, ptr |-> NilPtr]
  /\ work = [accepted |-> 0, lookups |-> 0]
  /\ calls = <<>>

Init ==
  /\ mode \in Modes
  /\ \E n \in 0..MaxSymbols : configuration = [Symbols |-> SubSeq(SymbolPool, 1, n)]
  /\ phase = "Resolving"
  /\ summary = <<>>
  /\ Idle

Next == GetMarket \/ SubscribeToMarkets \/ OnMessage \/ StreamClosed \/ PrintTable

Spec == Init /\ [][Next]_vars

\* runScreener runs on: once SubscribeToMarkets has returned, printTable is called
FairSpec == Spec /\ WF_vars(PrintTable)

(* --------------------- getOrderSummary on its own --------------------- *)
SummaryInit ==
  /\ mode \in Modes
  /\ configuration = [Symbols |-> <<>>]
  /\ phase = "Summary"
  /\ summary \in Levels(SummaryPrices, MaxSummary)
  /\ Idle

CallGetOrderSummary ==
  /\ phase = "Summary"
  /\ best' = getOrderSummary(summary)
  /\ phase' = IF best'.fatal THEN "Fatal" ELSE "SummaryDone"
  /\ UNCHANGED << mode, configuration, markets, assetIDs, symbols, symbolCount,
                  message, index, result, delivered, closed, subscribed, gotMarket,
                  gotChange, writes, source, rendered, rows, summary, work,
                  calls >>

SummaryNext == CallGetOrderSummary

SummarySpec == SummaryInit /\ [][SummaryNext]_vars


(* ---------------- one accepted event, derived and printed ------------- *)
\* one instrument with one identifier, subscribed, nothing delivered yet
OneInstrument ==
  /\ configuration = [Symbols |-> SubSeq(SymbolPool, 1, 1)]
  /\ markets = <<[Slug |-> ToLower(SymbolPool[1].Symbol), Tokens |-> <<TokenID(1, 1)>>]>>
  /\ assetIDs = GetAssetIDs(markets)
  /\ symbolCount = 0
  /\ index = -1
  /\ result = "none"
  /\ delivered = 0
  /\ closed = FALSE
  /\ subscribed = TRUE
  /\ gotMarket = [err |-> FALSE, market |-> markets[1]]
  /\ writes = [i \in 0..(MaxSymbols - 1) |-> 0]
  /\ source = [i \in 0..(MaxSymbols - 1) |-> NoMessage]
  /\ rendered = 0
  /\ rows = <<>>
  /\ summary = <<>>
  /\ best = [fatal |-> FALSE, ptr |-> NilPtr]
  /\ work = [accepted |-> 0, lookups |-> 0]
  /\ calls = <<>>

\* the event and the answer of yahoo.GetChange are the inputs
DeriveInit ==
  /\ mode \in Modes
  /\ phase = "Derive"
  /\ OneInstrument
  /\ symbols = <<ZeroSymbolData>>
  /\ message \in {[EventType |-> BookEvent, AssetID |-> TokenID(1, 1),
                    Bids |-> b, Asks |-> k] :
                     b \in Levels(DerivePrices, MaxDerive),
                     k \in Levels(DerivePrices, MaxDerive)}
  /\ gotChange \in GetChangeOutcomes

\* the callback's derivation and write for that event, then printTable
DeriveAndPrint ==
  /\ phase = "Derive"
  /\ LET r == Derive(configuration.Symbols[1], message, gotChange) IN
     IF r.fatal
     THEN phase' = "Fatal" /\ UNCHANGED << symbols, rows >>
     ELSE /\ symbols' = WriteSlot(symbols, 0, r.data)
          /\ rows' = printTable(symbols')
          /\ phase' = "Derived"
  /\ UNCHANGED << mode, configuration, markets, assetIDs, symbolCount, message,
                  index, result, delivered, closed, subscribed, gotMarket,
                  gotChange, writes, source, rendered, summary, best, work,
                  calls >>

DeriveNext == DeriveAndPrint

DeriveSpec == DeriveInit /\ [][DeriveNext]_vars

(* ----------------------- one table row, printed ----------------------- *)
\* prices of a table slot, in 1/1000: below zero, zero, the two bounds and
\* their neighbours, and a value above both
ClassifyValues == {-100, 0, 1, 500, 501, 750, 751, 900}
\* reference changes of a table slot
ClassifyChanges == {NaN, Float(-150), Float(0), Float(220)}
ClassifyPtrs == {NilPtr} \cup {Ptr(v) : v \in ClassifyValues}

\* the slot handed to printTable is the input
TableInit ==
  /\ mode = "YesNo"
  /\ phase = "Table"
  /\ OneInstrument
  /\ message = NoMessage
  /\ gotChange = NoChange
  /\ symbols \in {<<[symbol |-> SymbolPool[1].Symbol, yahoo |-> SymbolPool[1].Yahoo,
                     yes |-> y, no |-> n, spread |-> NilPtr, change |-> c]>> :
                     y \in ClassifyPtrs, n \in ClassifyPtrs, c \in ClassifyChanges}

RenderTable ==
  /\ phase = "Table"
  /\ rows' = printTable(symbols)
  /\ rendered' = rendered + 1
  /\ phase' = "TableDone"
  /\ UNCHANGED << mode, configuration, markets, assetIDs, symbols, symbolCount,
                  message, index, result, delivered, closed, subscribed, gotMarket,
                  gotChange, writes, source, summary, best, work, calls >>

TableNext == RenderTable

TableSpec == TableInit /\ [][TableNext]_vars

(* ------------------ two callback invocations in flight ---------------- *)
\* the goroutines that run the callback at the same time
Threads == {1, 2}
\* price strings of the events delivered concurrently
ConcPrices == {"0.30"}
\* symbols[index] = data copies a struct of several words and is not atomic:
\* the copy is taken in two parts, these fields first
HeadFields == {"symbol", "yahoo", "yes", "bestBid"}

\* book events for the two watched identifiers and for an unknown one
ConcMessages ==
  {[EventType |-> BookEvent, AssetID |-> a, Bids |-> b, Asks |-> k] :
     a \in {UnknownID, TokenID(1, 1), TokenID(2, 1)},
     b \in Levels(ConcPrices, MaxLevels),
     k \in Levels(ConcPrices, MaxLevels)}
\* answers of yahoo.GetChange that are no error
ConcChanges == {o \in GetChangeOutcomes : ~o.err}

\* an invocation of the callback that has not started: its event, the answer
\* yahoo.GetChange will give it, and its locals index, data and the value of
\* symbolCount it loaded
NewCall(m, c) ==
  [pc |-> "start", m |-> m, c |-> c, idx |-> -1, data |-> ZeroSymbolData,
   tmp |-> 0, ret |-> "none"]

\* two instruments are subscribed and two events are handed to the callback
\* at once
ConcInit ==
  /\ mode \in Modes
  /\ phase = "Concurrent"
  /\ configuration = [Symbols |-> SubSeq(SymbolPool, 1, 2)]
  /\ markets = [i \in 1..2 |-> [Slug |-> ToLower(SymbolPool[i].Symbol),
                                 Tokens |-> <<TokenID(i, 1)>>]]
  /\ assetIDs = GetAssetIDs(markets)
  /\ symbols = <<ZeroSymbolData, ZeroSymbolData>>
  /\ symbolCount = 0
  /\ message = NoMessage
  /\ index = -1
  /\ result = "none"
  /\ delivered = 0
  /\ closed = FALSE
  /\ subscribed = TRUE
  /\ gotMarket = [err |-> FALSE, market |-> markets[2]]
  /\ gotChange = NoChange
  /\ writes = [i \in 0..(MaxSymbols - 1) |-> 0]
  /\ source = [i \in 0..(MaxSymbols - 1) |-> NoMessage]
  /\ rendered = 0
  /\ rows = <<>>
  /\ summary = <<>>
  /\ best = [fatal |-> FALSE, ptr |-> NilPtr]
  /\ work = [accepted |-> 0, lookups |-> 0]
  /\ calls \in {<<NewCall(m1, c1), NewCall(m2, c2)>> :
                  m1 \in ConcMessages, c1 \in ConcChanges,
                  m2 \in ConcMessages, c2 \in ConcChanges}

\* main.go 84-112, part_000 71-96: the event kind, the index and the row
CallDerive(t) ==
  /\ phase = "Concurrent"
  /\ calls[t].pc = "start"
  /\ LET call == calls[t]
         idx == SlicesIndex(assetIDs, call.m.AssetID)
     IN IF ~IsBookEvent(call.m)
        THEN /\ calls' = [calls EXCEPT ![t] = [call EXCEPT !.pc = "done", !.ret = "false"]]
             /\ UNCHANGED work
        ELSE IF idx < 0
        THEN /\ calls' = [calls EXCEPT ![t] = [call EXCEPT !.pc = "return", !.idx = idx]]
             /\ UNCHANGED work
        ELSE /\ calls' = [calls EXCEPT ![t] =
                            [call EXCEPT !.pc = "copyHead", !.idx = idx,
                               !.data = Derive(configuration.Symbols[idx + 1],
                                               call.m, call.c).data]]
             /\ work' = [accepted |-> work.accepted + 1,
                         lookups |-> work.lookups + 1]
  /\ UNCHANGED << mode, configuration, phase, markets, assetIDs, symbols, symbolCount,
                  message, index, result, delivered, closed, subscribed, gotMarket,
                  gotChange, writes, source, rendered, rows, summary, best >>

\* main.go 113, part_000 97: the first part of symbols[index] = data
CallCopyHead(t) ==
  /\ phase = "Concurrent"
  /\ calls[t].pc = "copyHead"
  /\ LET call == calls[t]
         old == symbols[call.idx + 1]
     IN symbols' = [symbols EXCEPT ![call.idx + 1] =
                      [f \in DOMAIN old |->
                         IF f \in HeadFields THEN call.data[f] ELSE old[f]]]
  /\ calls' = [calls EXCEPT ![t].pc = "copyTail"]
  /\ UNCHANGED << mode, configuration, phase, markets, assetIDs, symbolCount,
                  message, index, result, delivered, closed, subscribed, gotMarket,
                  gotChange, writes, source, rendered, rows, summary, best, work >>

\* main.go 113, part_000 97: the rest of symbols[index] = data
CallCopyTail(t) ==
  /\ phase = "Concurrent"
  /\ calls[t].pc = "copyTail"
  /\ LET call == calls[t]
         old == symbols[call.idx + 1]
     IN /\ symbols' = [symbols EXCEPT ![call.idx + 1] =
                         [f \in DOMAIN old |->
                            IF f \in HeadFields THEN old[f] ELSE call.data[f]]]
        /\ writes' = [writes EXCEPT ![call.idx] = @ + 1]
        /\ source' = [source EXCEPT ![call.idx] = call.m]
  /\ calls' = [calls EXCEPT ![t].pc = "load"]
  /\ UNCHANGED << mode, configuration, phase, markets, assetIDs, symbolCount,
                  message, index, result, delivered, closed, subscribed, gotMarket,
                  gotChange, rendered, rows, summary, best, work >>

\* main.go 114, part_000 98: symbolCount++ reads the counter ...
CallLoadCount(t) ==
  /\ phase = "Concurrent"
  /\ calls[t].pc = "load"
  /\ calls' = [calls EXCEPT ![t] = [calls[t] EXCEPT !.pc = "store", !.tmp = symbolCount]]
  /\ UNCHANGED << mode, configuration, phase, markets, assetIDs, symbols, symbolCount,
                  message, index, result, delivered, closed, subscribed, gotMarket,
                  gotChange, writes, source, rendered, rows, summary, best, work >>

\* ... and writes it back, one more
CallStoreCount(t) ==
  /\ phase = "Concurrent"
  /\ calls[t].pc = "store"
  /\ symbolCount' = calls[t].tmp + 1
  /\ calls' = [calls EXCEPT ![t].pc = "return"]
  /\ UNCHANGED << mode, configuration, phase, markets, assetIDs, symbols,
                  message, index, result, delivered, closed, subscribed, gotMarket,
                  gotChange, writes, source, rendered, rows, summary, best, work >>

\* main.go 118, part_000 102: return symbolCount < len(configuration.Symbols)
CallReturn(t) ==
  /\ phase = "Concurrent"
  /\ calls[t].pc = "return"
  /\ calls' = [calls EXCEPT ![t] =
                 [calls[t] EXCEPT !.pc = "done",
                    !.ret = IF ShouldContinue(symbolCount, NumSymbols)
                            THEN "true" ELSE "false"]]
  /\ delivered' = delivered + 1
  /\ UNCHANGED << mode, configuration, phase, markets, assetIDs, symbols, symbolCount,
                  message, index, result, closed, subscribed, gotMarket,
                  gotChange, writes, source, rendered, rows, summary, best, work >>

ConcNext ==
  \E t \in Threads :
    \/ CallDerive(t)
    \/ CallCopyHead(t)
    \/ CallCopyTail(t)
    \/ CallLoadCount(t)
    \/ CallStoreCount(t)
    \/ CallReturn(t)

ConcSpec == ConcInit /\ [][ConcNext]_vars

(* ------------------------------ properties ---------------------------- *)
Slots == 0..(NumSymbols - 1)
\* the instruments whose slot has been written at least once
Filled == {i \in Slots : writes[i] > 0}
AllFilled == Filled = Slots
\* the identifiers the subscription watches
Watched == {assetIDs[k] : k \in 1..Len(assetIDs)}
\* the Go index of the instrument whose market carries identifier id
OwnerOf(id) ==
  (CHOOSE i \in 1..Len(markets) :
     \E k \in 1..Len(markets[i].Tokens) : markets[i].Tokens[k] = id) - 1
\* every resolved market carries exactly one outcome-token identifier
OneTokenEach == \A i \in 1..Len(markets) : Len(markets[i].Tokens) = 1
\* the callback has just returned from a book event
GateStopped == IsBookEvent(message) /\ result = "false"

\* C1: the filled count equals the number of distinct instruments filled (so a
\* second accepted event for a filled instrument leaves it unchanged), and
\* when the gate stops the stream after a book event all N slots are filled.
C1_CountIsDistinctFills ==
  subscribed =>
    /\ symbolCount = Cardinality(Filled)
    /\ (GateStopped /\ NumSymbols > 0 => AllFilled)

\* C2: within one session each slot of the result table is written at most
\* once: a later book event for a filled instrument is not processed again.
C2_SlotWrittenAtMostOnce == \A i \in Slots : writes[i] <= 1

\* C3: for a book event whose identifier belongs to a watched instrument, the
\* index used to read the symbol and write the table lies in 0 .. N-1 and is
\* the position of the instrument owning the identifier, also when a market
\* contributes several identifiers.
C3_IndexIsOwner ==
  (subscribed /\ IsBookEvent(message) /\ message.AssetID \in Watched) =>
    /\ index \in Slots
    /\ index = OwnerOf(message.AssetID)


\* the table row the event m for the i-th instrument (Go index i) yields
ExpectedRow(i, m) ==
  LET symbol == configuration.Symbols[i + 1]
      data == Derive(symbol, m, [err |-> FALSE, value |-> symbols[i + 1].change]).data
  IN IF mode = "YesNo" THEN RowYesNo(data) ELSE RowBidAsk(data)

\* C4: whatever the arrival order, when each instrument resolved to one
\* identifier and all N are filled, the rendered table has N rows and row i
\* carries the i-th configured symbol and the metrics of the event that
\* carried the i-th instrument's identifier.
C4_RowOrder ==
  (phase = "Done" /\ OneTokenEach /\ AllFilled) =>
    /\ Len(rows) = NumSymbols
    /\ \A i \in Slots :
         /\ source[i].EventType = BookEvent
         /\ source[i].AssetID = markets[i + 1].Tokens[1]
         /\ rows[i + 1][1].text = configuration.Symbols[i + 1].Symbol
         /\ rows[i + 1] = ExpectedRow(i, source[i])

\* two instruments, the second one's event arrived first, both rows numeric
C4_Witness ==
  /\ phase = "Done" /\ OneTokenEach /\ AllFilled
  /\ NumSymbols = 2
  /\ writes[0] = 1 /\ writes[1] = 1
  /\ message.AssetID = markets[1].Tokens[1]
  /\ \A i \in 1..2 : rows[i][2].kind = "fixed2" /\ rows[i][3].kind = "fixed2"

\* a step in which the callback handled an event of another kind than book
NonDataStep ==
  delivered' = delivered + 1 /\ message'.EventType # BookEvent
\* the callback's last event was of another kind than book
NonDataSeen ==
  subscribed /\ delivered > 0 /\ message.EventType # BookEvent

\* C5: an event of another kind than book makes the callback return false,
\* whatever the filled count and the event's identifier, leaves the table and
\* the count as they are, and the table is then rendered from the slots filled
\* so far.
C5_NonDataStops ==
  /\ [][NonDataStep =>
          /\ result' = "false"
          /\ phase' = "Returned"
          /\ symbols' = symbols
          /\ symbolCount' = symbolCount
          /\ writes' = writes]_vars
  /\ (NonDataSeen ~> (phase = "Done" /\ rendered = 1 /\ rows = printTable(symbols)))

\* a partly filled table was rendered after an event of another kind
C5_Witness ==
  /\ NonDataSeen /\ phase = "Done"
  /\ symbolCount = 1 /\ NumSymbols = 2
  /\ message.AssetID # UnknownID

\* a step in which the callback handled a book event with an unwatched identifier
UnknownIdStep ==
  /\ delivered' = delivered + 1
  /\ message'.EventType = BookEvent
  /\ message'.AssetID \notin Watched
\* such a step resolves to no index, aborts nothing and changes nothing
UnknownIdIgnored ==
  /\ index' = -1
  /\ phase' \notin {"Fatal", "Panic"}
  /\ symbols' = symbols
  /\ symbolCount' = symbolCount
  /\ writes' = writes

\* C6 as stated: for every N >= 0 a book event with an unknown identifier
\* resolves to no index, aborts nothing, changes neither table nor count, and
\* the callback returns true.
C6_UnknownIdContinues ==
  [][UnknownIdStep => UnknownIdIgnored /\ result' = "true" /\ phase' = "Streaming"]_vars

\* C6 amended: the same for every N >= 1; with N = 0 the event is ignored in
\* the same way but the callback returns false and the session stops.
C6_UnknownIdNonFatal ==
  [][UnknownIdStep =>
       /\ UnknownIdIgnored
       /\ IF NumSymbols >= 1
          THEN result' = "true" /\ phase' = "Streaming"
          ELSE result' = "false" /\ phase' = "Returned"]_vars

\* an unknown identifier was ignored after one slot had been filled
C6_Witness ==
  /\ phase = "Streaming" /\ NumSymbols = 2 /\ symbolCount = 1
  /\ message.EventType = BookEvent /\ message.AssetID \notin Watched
  /\ result = "true" /\ index = -1

\* the level getOrderSummary parses is no decimal
BestMalformed(levels) ==
  levels # <<>> /\ NewFromString(levels[Len(levels)].Price).err
\* a fatal condition has occurred: a failed resolution, a failed parse of a
\* price of an accepted event, a failed reference lookup
FatalCondition ==
  \/ gotMarket.err
  \/ gotChange.err
  \/ /\ subscribed /\ message.EventType = BookEvent /\ index \in Slots
     /\ (BestMalformed(message.Asks) \/ BestMalformed(message.Bids))

C8_SubscribeAfterAllResolved ==
  /\ subscribed =>
       /\ Len(markets) = NumSymbols
       /\ \A i \in 1..Len(markets) : markets[i].Slug # ""
  /\ (gotMarket.err \/ gotMarket.market.Slug = "") => ~subscribed /\ delivered = 0

\* the callback returned false, the stream closed, or every instrument of a
\* non-empty watch list got its book event, and nothing was fatal
StopCause ==
  /\ subscribed /\ phase \notin {"Fatal", "Panic"}
  /\ result = "false" \/ closed \/ (NumSymbols > 0 /\ AllFilled)

\* a step that processes no event and leads to Done
OnlyRendering ==
  /\ delivered' = delivered
  /\ symbols' = symbols
  /\ symbolCount' = symbolCount
  /\ phase' = "Done"

\* C9: once the callback returned false or the stream closed, no further
\* event is processed and the table is rendered exactly once; every such run,
\* and every run whose stream brought a book event for each instrument, ends
\* in Done.
C9_StreamingEndsInDone ==
  /\ [][(phase \in {"Returned", "Done"}) => OnlyRendering]_vars
  /\ [](rendered <= 1 /\ (phase = "Done" <=> rendered = 1))
  /\ (StopCause ~> phase = "Done")

\* the gate stopped a two-instrument session and the table was rendered
C9_Witness ==
  /\ phase = "Done" /\ rendered = 1 /\ ~closed
  /\ NumSymbols = 2 /\ AllFilled /\ message.EventType = BookEvent

\* the decimal of a level's price
PriceOf(level) == NewFromString(level.Price).d

\* C10: for a non-empty sequence of levels getOrderSummary returns the price
\* of the last element; for the empty sequence it returns nothing.
C10_BestIsLast ==
  phase = "SummaryDone" =>
    IF summary = <<>>
    THEN best.ptr.nil
    ELSE ~best.ptr.nil /\ best.ptr.v = PriceOf(summary[Len(summary)])

\* the price returned is neither the lowest nor the highest of the sequence
C10_Witness ==
  /\ phase = "SummaryDone" /\ Len(summary) = 3 /\ ~best.ptr.nil
  /\ \A k \in 1..3 : ~NewFromString(summary[k].Price).err
  /\ \E j, k \in 1..2 : PriceOf(summary[j]) < best.ptr.v /\ best.ptr.v < PriceOf(summary[k])


\* the last level's decimal, or nil for no level
BestOf(levels) ==
  IF levels = <<>> THEN NilPtr ELSE Ptr(PriceOf(levels[Len(levels)]))

\* C11: in the yes/no variant, yes is the best ask price, no is 1 minus the
\* best bid price when there is a bid and absent otherwise, and the spread
\* cell shows (yes + no) - 1 when both are present and the placeholder
\* otherwise.
C11_YesNoDerivation ==
  (phase = "Derived" /\ mode = "YesNo") =>
    LET d == symbols[1]
        bid == BestOf(message.Bids)
    IN /\ d.yes = BestOf(message.Asks)
       /\ d.no = (IF bid.nil THEN NilPtr ELSE Ptr(1000 - bid.v))
       /\ IF ~d.yes.nil /\ ~d.no.nil
          THEN /\ rows[1][4].kind = "fixed2"
               /\ rows[1][4].num = StringFixed2(d.yes.v + d.no.v - 1000)
          ELSE rows[1][4].kind = "-"

\* best bid 0.30 and best ask 0.55 give yes 0.55, no 0.70, spread 0.25
C11_Witness ==
  /\ phase = "Derived" /\ mode = "YesNo"
  /\ Len(message.Bids) = 2 /\ Len(message.Asks) = 2
  /\ message.Bids[2].Price = "0.30" /\ message.Asks[2].Price = "0.55"
  /\ symbols[1].yes = Ptr(550) /\ symbols[1].no = Ptr(700)
  /\ rows[1][4].kind = "fixed2" /\ rows[1][4].num = 25

\* C12: in the bid/ask variant, best bid and best ask are the best prices of
\* their sides and the stored spread is ask - bid exactly when both are
\* present, absent when a side is empty.
C12_BidAskDerivation ==
  (phase = "Derived" /\ mode = "BidAsk") =>
    LET d == symbols[1] IN
    /\ d.bestBid = BestOf(message.Bids)
    /\ d.bestAsk = BestOf(message.Asks)
    /\ d.spread = (IF ~d.bestBid.nil /\ ~d.bestAsk.nil
                   THEN Ptr(d.bestAsk.v - d.bestBid.v)
                   ELSE NilPtr)

\* best bid 0.30 and best ask 0.55 give the spread 0.25
C12_Witness ==
  /\ phase = "Derived" /\ mode = "BidAsk"
  /\ symbols[1].bestBid = Ptr(300) /\ symbols[1].bestAsk = Ptr(550)
  /\ symbols[1].spread = Ptr(250)
  /\ rows[1][4].kind = "fixed2" /\ rows[1][4].num = 25


\* the tier of a price against goodBound = 0.50 and mediocreBound = 0.75
Tier(v) == IF v <= 500 THEN "green" ELSE IF v <= 750 THEN "yellow" ELSE "none"
\* the slot printed and the sign of its reference change
Printed == symbols[1]
ChangeUp == ~Printed.change.nan /\ Printed.change.v > 0
ChangeDown == ~Printed.change.nan /\ Printed.change.v < 0

\* C13 as stated: on a side whose bias agrees with the sign of the change,
\* every present value, zero included, is green up to 0.50, yellow up to 0.75
\* and plain above.
C13_ClassifierAllValues ==
  phase = "TableDone" =>
    /\ (ChangeUp /\ ~Printed.yes.nil) => rows[1][2].color = Tier(Printed.yes.v)
    /\ (ChangeDown /\ ~Printed.no.nil) => rows[1][3].color = Tier(Printed.no.v)

\* C13 amended: the same for every present value above zero; a present value
\* of zero or below is never highlighted.
C13_ClassifierBoundaries ==
  phase = "TableDone" =>
    /\ (ChangeUp /\ ~Printed.yes.nil) =>
         rows[1][2].color = (IF Printed.yes.v > 0 THEN Tier(Printed.yes.v) ELSE "none")
    /\ (ChangeDown /\ ~Printed.no.nil) =>
         rows[1][3].color = (IF Printed.no.v > 0 THEN Tier(Printed.no.v) ELSE "none")

\* a yes price equal to the mediocre bound is yellow when the change is positive
C13_Witness ==
  /\ phase = "TableDone" /\ ChangeUp
  /\ Printed.yes = Ptr(750) /\ rows[1][2].color = "yellow"
  /\ rows[1][2].kind = "fixed2" /\ rows[1][2].num = 75

\* C14: a price cell is plain when its value is absent, when the change is
\* NaN or zero, or when the sign of the change disagrees with the side; the
\* yes and the no cell of a row are never both highlighted.
C14_ClassifierEligibility ==
  phase = "TableDone" =>
    /\ (Printed.yes.nil \/ Printed.change.nan \/ Printed.change.v <= 0) =>
         rows[1][2].color = "none"
    /\ (Printed.no.nil \/ Printed.change.nan \/ Printed.change.v >= 0) =>
         rows[1][3].color = "none"
    /\ rows[1][2].color = "none" \/ rows[1][3].color = "none"

\* with a negative change a yes price below the good bound stays plain while
\* the no cell is highlighted
C14_Witness ==
  /\ phase = "TableDone" /\ ChangeDown
  /\ Printed.yes = Ptr(1) /\ rows[1][2].color = "none"
  /\ Printed.no = Ptr(500) /\ rows[1][3].color = "green"


\* C15: when the session is Done, the table has one row per watched
\* instrument, and the row of an instrument that never received an accepted
\* event shows its configured symbol and a placeholder in every metric cell,
\* the reference change cell included.
C15_UnreportedRowsPlaceholders ==
  phase = "Done" =>
    /\ Len(rows) = NumSymbols
    /\ \A i \in Slots :
         writes[i] = 0 =>
           /\ rows[i + 1][1].text = configuration.Symbols[i + 1].Symbol
           /\ \A k \in 2..5 : rows[i + 1][k].kind \in {"-", "N/A"}


RECURSIVE SumOver(_, _)
\* the sum of f over the finite set S
SumOver(f, S) ==
  IF S = {} THEN 0
  ELSE LET x == CHOOSE y \in S : TRUE IN f[x] + SumOver(f, S \ {x})
\* the number of table writes of the session
TotalWrites == SumOver(writes, DOMAIN writes)

\* C17: no event being delivered after the callback returned false, in every
\* reachable state the filled count is between 0 and N, and the session has
\* accepted at most N book events, made at most N price-change lookups and
\* at most N table writes.
C17_BoundedWork ==
  /\ symbolCount >= 0 /\ symbolCount <= NumSymbols
  /\ work.accepted <= NumSymbols
  /\ work.lookups <= NumSymbols
  /\ TotalWrites <= NumSymbols

\* a stream of three events, one of them ignored, fills two instruments with
\* two lookups and two writes and then stops
C17_Witness ==
  /\ phase = "Done" /\ NumSymbols = 2 /\ delivered = 3
  /\ symbolCount = 2 /\ work.accepted = 2 /\ work.lookups = 2 /\ TotalWrites = 2

\* a step in which the callback stored the row of a book event at index'
AcceptedStep ==
  /\ delivered' = delivered + 1
  /\ message'.EventType = BookEvent
  /\ index' \in Slots
  /\ phase' \notin {"Fatal", "Panic"}

\* C18: processing a book event accepted for index i changes only slot i of
\* the table and adds exactly one to the filled count; every other slot, the
\* configured instrument list and the subscribed identifier list are unchanged.
C18_AcceptedFrame ==
  [][AcceptedStep =>
       /\ Len(symbols') = Len(symbols)
       /\ \A j \in Slots : j # index' => symbols'[j + 1] = symbols[j + 1]
       /\ symbolCount' = symbolCount + 1
       /\ configuration' = configuration
       /\ assetIDs' = assetIDs]_vars

\* the last event was accepted for slot 0 after slot 1 had been filled, and
\* slot 1 still carries its own row
C18_Witness ==
  /\ phase \in {"Streaming", "Returned"} /\ NumSymbols = 2
  /\ message.EventType = BookEvent /\ index = 0 /\ source[0] = message
  /\ writes[0] = 1 /\ writes[1] = 1 /\ symbolCount = 2
  /\ symbols[2].symbol = configuration.Symbols[2].Symbol
  /\ symbols[1].symbol = configuration.Symbols[1].Symbol


\* both invocations of the callback have returned
AllReturned == phase = "Concurrent" /\ \A t \in Threads : calls[t].pc = "done"
\* the table and the count after an invocation that runs alone on st
After(st, call) ==
  IF call.idx >= 0
  THEN [table |-> [st.table EXCEPT ![call.idx + 1] = call.data],
        count |-> st.count + 1]
  ELSE st
\* the table and the count when the two invocations run one after the other
InOrder(first, second) ==
  After(After([table |-> <<ZeroSymbolData, ZeroSymbolData>>, count |-> 0],
              calls[first]), calls[second])

\* C16: when the callback is invoked for two events concurrently, after both
\* invocations have returned the table and the count are those of one of the
\* two sequential orders: no increment is lost and no slot holds a mixed row.
C16_Serializable ==
  AllReturned =>
    \E o \in {<<1, 2>>, <<2, 1>>} :
      /\ symbols = InOrder(o[1], o[2]).table
      /\ symbolCount = InOrder(o[1], o[2]).count

====
